---- MODULE Spec2Model ----
(***************************************************************************)
(* samantha: a voice assistant made of a server ("brain") and a client.    *)
(*                                                                         *)
(*   Spec     brain/src/brain_server.py  BrainServer.handle_client, one    *)
(*            handler per websocket connection, the engine calls           *)
(*            (stt, llm, tts_pcm24k) as steps with nondeterministic        *)
(*            outcomes                                                     *)
(*   SpecConns  the same handlers, several connections at a time           *)
(*   SpecLlm  brain/src/openai_pipe.py  OpenAIPipeline.llm with the tools  *)
(*            of brain/src/tools.py, run on every engine and device        *)
(*            behaviour of LlmEnvs                                         *)
(*   SpecSession  one handler whose peer is the repository's client        *)
(*   SpecVad  client/src/main.py  vad_task, frame by frame                 *)
(*   SpecAudio  client/src/audio_io.py  MicStream and SpeakerOut           *)
(*   SpecClient  client/src/main.py  vad_task and recv_task connected to   *)
(*            a handler of the server                                      *)
(***************************************************************************)
EXTENDS Integers, Sequences, FiniteSets, TLC

\* ------------------------------------------------------------------ bounds
\* messages the peers of the server send, all connections together: one
\* connection alone, several connections at a time
MaxMsgs == 5
MaxMsgsShared == 4
\* messages the repository's own client sends on its connection
MaxSessionMsgs == 7

\* ------------------------------------------------------------------- state
\* brain_server.py: BrainServer and its handlers
VARIABLES
    shared_secret,  \* self.shared_secret, "" when none is configured
    buffers,        \* self.buffers: ws -> None | UtteranceBuffer
    pc,             \* where the handler of each connection stands
    open,           \* the connection is open (the peer has not closed it)
    hello_fmt,      \* sr, ch of the hello (locals of handle_client)
    cur,            \* buf, mode, persona, text, reply of the utterance in work
    log,            \* per connection: what the handler sent, called and met
    peers,          \* the connections that peers open
    quota,          \* messages the peers still send
    last            \* the message taken last, and the connection it came on

srvVars == <<shared_secret, buffers, pc, open, hello_fmt, cur, log, peers, quota, last>>

\* openai_pipe.py: one run of pipeline.llm on its own
VARIABLES
    llm_in,     \* text, system_prompt and the environment of one run of llm
    llm_out     \* what the run gave, once it has ended

llmVars == <<llm_in, llm_out>>

\* client/src/main.py: vad_task and recv_task
VARIABLES
    speeching,      \* locals of vad_task
    silence_frames,
    speech_frames,
    state,          \* the dialog state of the client: mode, current_persona
    sent,           \* the utterances handed to brain.send_utterance, in order
    hist,           \* is_speech of every frame taken from the mic queue
    tts_persona,    \* local of recv_task
    nread,          \* messages of the server recv_task has taken
    sending         \* send_mode while vad_task awaits send_utterance, else null

vadVars == <<speeching, silence_frames, speech_frames, state, sent, hist,
             tts_persona, nread, sending>>

\* client/src/audio_io.py: MicStream and SpeakerOut
VARIABLES
    mic,            \* MicStream: hw_sr, target_sr, frame_ms
    _accum,         \* MicStream._accum: resampled samples not yet framed
    mic_q,          \* MicStream._q
    mic_in,         \* every resampled sample the callback has accumulated
    mic_put,        \* every put_nowait of the mic callback
    mic_got,        \* frames taken from MicStream._q
    spk,            \* SpeakerOut: samplerate, blocksize, channels
    spk_q,          \* SpeakerOut._q
    plays,          \* every call of play_pcm16
    spk_put,        \* every put_nowait of play_pcm16
    spk_got,        \* blocks taken from SpeakerOut._q
    outdata,        \* what the output callback wrote last
    aud_left        \* audio calls still to come
audVars == <<mic, _accum, mic_q, mic_in, mic_put, mic_got,
             spk, spk_q, plays, spk_put, spk_got, outdata, aud_left>>

vars == <<srvVars, llmVars, vadVars, audVars>>

\* ------------------------------------------------------- values and helpers
\* a JSON key that is missing, JSON null / Python None, a value int() rejects
Absent == "absent"
Null == "null"
Bad == "bad"

\* the connections (ws objects) of the model
Conns == {"ws1", "ws2"}

Modes == {"wake", "query"}

RECURSIVE SumSeq(_)
SumSeq(s) == IF s = <<>> THEN 0 ELSE Head(s) + SumSeq(Tail(s))

\* dict.get(key, default)
Get(data, key, default) == IF data[key] = Absent THEN default ELSE data[key]

\* int(v): the fields of a message are kept as their JSON text; int raises on
\* a value that is no number
IntOk(v) == v \in {"16000", "8000", "1", "2"}
ToInt(v) ==
    CASE v = "16000" -> 16000
      [] v = "8000" -> 8000
      [] v = "1" -> 1
      [] v = "2" -> 2

\* ------------------------------------------------------------ the messages
\* binary payloads are raw PCM16 of these byte lengths
PayloadSizes == {1000, 3200}

Binary(n) == [kind |-> "binary", len |-> n]
\* text that json.loads rejects
BadJson == [kind |-> "badjson"]
\* text that is valid JSON but no object (a list, a number, a string, null)
NonObject == [kind |-> "nonobject"]
Object(t, mode, persona, fmt, secret) ==
    [kind |-> "object", type |-> t, mode |-> mode, persona |-> persona,
     sr |-> fmt[1], ch |-> fmt[2], secret |-> secret]

NoFmt == <<Absent, Absent>>

HelloMsgs ==
    { Object("hello", Absent, Absent, fmt, s) :
        fmt \in {NoFmt, <<"16000", "1">>, <<Bad, Absent>>, <<Absent, Bad>>},
        s \in {Absent, "s3cret", "wrong"} }

\* utterance_start: for a wake utterance as the client sends it, for a query
\* utterance at another rate, with no field but the type, and with a field
\* int() rejects
StartMsgs ==
    { Object("utterance_start", "wake", Null, <<"16000", "1">>, Absent),
      Object("utterance_start", "query", "samantha", <<"8000", "2">>, Absent),
      Object("utterance_start", Absent, Absent, NoFmt, Absent),
      Object("utterance_start", "wake", Absent, <<Bad, Absent>>, Absent) }

\* utterance_end: as the client sends it for a wake and for a query
\* utterance, and with no field but the type
EndMsgs ==
    { Object("utterance_end", "wake", Null, NoFmt, Absent),
      Object("utterance_end", "query", "samantha", NoFmt, Absent),
      Object("utterance_end", Absent, Absent, NoFmt, Absent) }

\* an object of a kind the server does not know (or with no "type" at all)
UnknownMsgs == { Object(t, Absent, Absent, NoFmt, Absent) : t \in {"ping", Absent} }

BinaryMsgs == { Binary(n) : n \in PayloadSizes }

\* what a peer may send first
FirstMsgs == HelloMsgs \cup {Binary(1000), BadJson, NonObject}
                 \cup { m \in StartMsgs : m.mode = Absent }

\* what a peer may send after the handshake
LoopMsgs == BinaryMsgs \cup {BadJson, NonObject} \cup UnknownMsgs \cup StartMsgs \cup EndMsgs

\* json.loads(msg) succeeds
JsonOk(m) == m.kind \in {"nonobject", "object"}
\* data.get exists: the decoded value is a dict
IsDict(m) == m.kind = "object"

\* --------------------------------------------------------- engine results
\* Text is a sequence of tokens, " " is whitespace; NoneText is a text that is
\* None (resp.text, msg.content)
NoneText == <<Null>>

\* resp.text of a transcription
RawTexts == { NoneText, <<>>, <<" ">>, <<"hi">>, <<" ", "Hey", "Samantha", " ">>,
              <<"KRISHNA", "samantha">> }

\* (x or "")
TextOrEmpty(x) == IF x = NoneText THEN <<>> ELSE x

RECURSIVE LStrip(_)
LStrip(t) == IF t # <<>> /\ Head(t) = " " THEN LStrip(Tail(t)) ELSE t

RECURSIVE RStrip(_)
RStrip(t) == IF t # <<>> /\ t[Len(t)] = " " THEN RStrip(SubSeq(t, 1, Len(t) - 1)) ELSE t

\* str.strip()
Strip(t) == RStrip(LStrip(t))

\* str.lower(), token by token
LowerTok(w) ==
    CASE w = "Samantha" -> "samantha"
      [] w = "KRISHNA" -> "krishna"
      [] w = "Hey" -> "hey"
      [] w = "Garage" -> "garage"
      [] w = "Left" -> "left"
      [] w = "RIGHT" -> "right"
      [] w = "Door" -> "door"
      [] OTHER -> w
Lower(t) == [i \in 1..Len(t) |-> LowerTok(t[i])]

\* "word" in t
Contains(t, w) == \E i \in 1..Len(t) : t[i] = w

\* ------------------------------------------------ tools.py: the garage door
\* The Meross account as one tool call finds it: whether MEROSS_EMAIL and
\* MEROSS_PASSWORD are set, and the devices of the account in discovery order.
Dev(name, type) == [name |-> name, device_type |-> type]

Worlds ==
    { [creds |-> FALSE, devices |-> <<>>],
      [creds |-> TRUE, devices |-> <<>>],
      [creds |-> TRUE, devices |-> <<Dev(<<"Plug">>, "mss110")>>],
      [creds |-> TRUE, devices |-> <<Dev(<<"Garage", "Left">>, "msg100"),
                                     Dev(<<"RIGHT", "Door">>, "msg100")>>],
      [creds |-> TRUE, devices |-> <<Dev(<<"Plug">>, "mss110"),
                                     Dev(<<"Main">>, "garage_opener")>>] }

\* where a Meross call of one tool call raises: nowhere, at the login, at
\* async_open/async_close (the door does not move), at the logout of the
\* finally block
Faults == {"none", "login", "action", "logout"}

\* mgr.find_devices(device_type="msg100")
FindMsg100(devices) == SelectSeq(devices, LAMBDA d : d.device_type = "msg100")

\* the fallback filter over all devices: the type starts with msg100 or
\* contains "garage"
FindFallback(devices) ==
    SelectSeq(devices, LAMBDA d : d.device_type \in {"msg100", "MSG100X", "garage_opener"})

\* door.lower() if door else None
DoorNorm(door) == IF door = Null THEN Null ELSE LowerTok(door)

\* the first garage whose lowered name contains door_norm, else garages[0]
SelectGarage(garages, door_norm) ==
    LET hits == SelectSeq(garages, LAMBDA g : Contains(Lower(g.name), door_norm))
    IN IF door_norm \in {"left", "right"} /\ hits # <<>> THEN Head(hits) ELSE Head(garages)

Failure(error) == [ok |-> FALSE, error |-> error]

\* what one run of _garage_action gives: raised (an exception leaves it), the
\* dict it returns otherwise, and the doors it actuated
Returned(result, actuated) == [raised |-> FALSE, result |-> result, actuated |-> actuated]
NoResult == [none |-> TRUE]
Raised(actuated) == [raised |-> TRUE, result |-> NoResult, actuated |-> actuated]

_garage_action(action, door, world, fault) ==
    IF ~world.creds THEN Returned(Failure("credentials"), <<>>)
    ELSE IF fault = "login" THEN Raised(<<>>)
    ELSE LET found == FindMsg100(world.devices)
             garages == IF found = <<>> THEN FindFallback(world.devices) ELSE found
         IN IF garages = <<>>
            THEN IF fault = "logout" THEN Raised(<<>>)
                 ELSE Returned(Failure("no garage"), <<>>)
            ELSE LET door_norm == DoorNorm(door)
                     garage == SelectGarage(garages, door_norm)
                     act == <<[device |-> garage.name, action |-> action]>>
                 IN IF action \notin {"open", "close"}
                    THEN IF fault = "logout" THEN Raised(<<>>)
                         ELSE Returned(Failure("unknown action"), <<>>)
                    ELSE IF fault = "action" THEN Raised(<<>>)
                    ELSE IF fault = "logout" THEN Raised(act)
                    ELSE Returned([ok |-> TRUE, device_name |-> garage.name,
                                   requested_door |-> door_norm, action |-> action], act)

tool_garage_open(door, world, fault) == _garage_action("open", door, world, fault)
tool_garage_close(door, world, fault) == _garage_action("close", door, world, fault)

\* ---------------------------------------- openai_pipe.py: OpenAIPipeline.llm
\* tool calls one completion response may carry, at most
MaxToolCalls == 2

\* cfg.system_prompt
DefaultPrompt == "You are a helpful voice assistant."

\* tc.function.arguments: None or "", text that is no JSON, JSON that is no
\* object, an object with or without "door"
Args(kind, door) == [kind |-> kind, door |-> door]

\* one requested tool call with what its Meross calls do: the function name,
\* the arguments, and where the device library raises
ToolCases ==
    { [name |-> "garage_open", arguments |-> Args("object", "Left"), fault |-> "none"],
      [name |-> "garage_close", arguments |-> Args("none", Absent), fault |-> "none"],
      [name |-> "garage_close", arguments |-> Args("object", "RIGHT"), fault |-> "logout"],
      [name |-> "garage_open", arguments |-> Args("invalid", Absent), fault |-> "action"],
      [name |-> "garage_open", arguments |-> Args("object", Absent), fault |-> "login"],
      [name |-> "garage_close", arguments |-> Args("nonobject", Absent), fault |-> "none"],
      [name |-> "lights_on", arguments |-> Args("object", Absent), fault |-> "none"] }

\* the engine gives every tool call of a response its own id
CallId(i) == 10 + i

ToolCall(i, case) ==
    [id |-> CallId(i), name |-> case.name, arguments |-> case.arguments]

\* msg.content of a completion
Contents == { NoneText, <<" ", "Done", " ">> }
SecondContent == <<"Done", " ">>

\* one completion response: the call raises, or a message with content and
\* tool calls (None and [] alike are no tool calls)
Response(raises, content, cases) ==
    [raises |-> raises, content |-> content,
     tool_calls |-> [i \in 1..Len(cases) |-> ToolCall(i, cases[i])],
     faults |-> [i \in 1..Len(cases) |-> cases[i].fault]]

CaseSeqs(n) == UNION { [1..k -> ToolCases] : k \in 0..n }

\* everything outside pipeline.llm that one run of it meets
LlmEnvs ==
    { [first |-> f, second |-> s, world |-> w] :
        f \in {Response(TRUE, NoneText, <<>>)}
                \cup { Response(FALSE, c, cs) : c \in Contents, cs \in CaseSeqs(MaxToolCalls) },
        s \in {Response(TRUE, NoneText, <<>>), Response(FALSE, SecondContent, <<>>),
               Response(FALSE, NoneText, <<[name |-> "garage_open",
                                            arguments |-> Args("none", Absent),
                                            fault |-> "none"]>>)},
        w \in Worlds }

\* raw_args = tc.function.arguments or "{}"; pyjson.loads(raw_args), {} when
\* it raises
ParseArgs(arguments) ==
    CASE arguments.kind \in {"none", "invalid"} -> [isdict |-> TRUE, door |-> Absent]
      [] arguments.kind = "nonobject" -> [isdict |-> FALSE, door |-> Absent]
      [] OTHER -> [isdict |-> TRUE, door |-> arguments.door]

\* _call_tool: what the dispatch of one tool call gives, with the calls of
\* tools.py it made
ToolOutcome(g, controller) ==
    [raised |-> g.raised, result |-> g.result, actuated |-> g.actuated,
     controller |-> controller]

_call_tool(name, args, world, fault) ==
    IF ~args.isdict
    THEN ToolOutcome(Raised(<<>>), <<>>)
    ELSE LET door == Get(args, "door", Null)
         IN CASE name = "garage_open" ->
                   ToolOutcome(tool_garage_open(door, world, fault),
                               <<[tool |-> "tool_garage_open", door |-> door]>>)
              [] name = "garage_close" ->
                   ToolOutcome(tool_garage_close(door, world, fault),
                               <<[tool |-> "tool_garage_close", door |-> door]>>)
              [] OTHER -> ToolOutcome(Returned(Failure("unknown tool"), <<>>), <<>>)

\* the for loop over tool_calls, from call i on; st carries the messages and
\* the calls made so far
RECURSIVE ToolLoop(_, _, _, _, _)
ToolLoop(tool_calls, faults, world, i, st) ==
    IF i > Len(tool_calls) \/ st.raised
    THEN st
    ELSE LET tc == tool_calls[i]
             args_dict == ParseArgs(tc.arguments)
             r == _call_tool(tc.name, args_dict, world, faults[i])
             dispatched == Append(st.dispatched, [id |-> tc.id, name |-> tc.name])
         IN IF r.raised
            THEN [st EXCEPT !.raised = TRUE, !.dispatched = dispatched,
                            !.controller = st.controller \o r.controller,
                            !.actuated = st.actuated \o r.actuated]
            ELSE ToolLoop(tool_calls, faults, world, i + 1,
                   [st EXCEPT !.dispatched = dispatched,
                              !.controller = st.controller \o r.controller,
                              !.actuated = st.actuated \o r.actuated,
                              !.messages = Append(st.messages,
                                  [role |-> "tool", name |-> tc.name,
                                   tool_call_id |-> tc.id, content |-> r.result])])

\* a chat.completions.create request: the messages, and whether it offers TOOLS
Request(messages, tools) == [messages |-> messages, tools |-> tools]

\* one run of llm: raised or the reply it returns, the completion requests it
\* issued, the tool calls it dispatched, the calls of tools.py, the doors moved
LlmRun(raised, reply, requests, st) ==
    [raised |-> raised, reply |-> reply, requests |-> requests,
     dispatched |-> st.dispatched, controller |-> st.controller,
     actuated |-> st.actuated, messages |-> st.messages]

llm(text, system_prompt, env) ==
    LET sys_prompt == IF system_prompt \in {Null, ""} THEN DefaultPrompt ELSE system_prompt
        messages == << [role |-> "system", content |-> sys_prompt],
                       [role |-> "user", content |-> text] >>
        st0 == [raised |-> FALSE, messages |-> messages, dispatched |-> <<>>,
                controller |-> <<>>, actuated |-> <<>>]
        req1 == Request(messages, TRUE)
        msg == env.first
    IN IF msg.raises THEN LlmRun(TRUE, <<>>, <<req1>>, st0)
       ELSE IF msg.tool_calls = <<>>
       THEN LlmRun(FALSE, Strip(TextOrEmpty(msg.content)), <<req1>>, st0)
       ELSE LET st1 == [st0 EXCEPT !.messages = Append(messages,
                            [role |-> "assistant", content |-> msg.content,
                             tool_calls |-> msg.tool_calls])]
                st == ToolLoop(msg.tool_calls, msg.faults, env.world, 1, st1)
                req2 == Request(st.messages, FALSE)
            IN IF st.raised THEN LlmRun(TRUE, <<>>, <<req1>>, st)
               ELSE IF env.second.raises THEN LlmRun(TRUE, <<>>, <<req1, req2>>, st)
               ELSE LlmRun(FALSE, Strip(TextOrEmpty(env.second.content)), <<req1, req2>>, st)

\* every way a run of llm can end, as handle_client sees it
LlmOutcomes ==
    { [raised |-> r.raised, reply |-> r.reply] :
        r \in { llm(<<"hi">>, Null, env) : env \in LlmEnvs } }

\* ------------------------------------------- brain_server.py: BrainServer

None == [none |-> TRUE]

UtteranceBuffer(pcm, mode, persona, sample_rate, channels) ==
    [pcm |-> pcm, mode |-> mode, persona |-> persona,
     sample_rate |-> sample_rate, channels |-> channels]

\* self.persona_prompts
persona_prompts == [samantha |-> "You are Samantha.", krishna |-> "You are Krishna."]

\* the minimum-utterance threshold of handle_client, in bytes
MinUtteranceBytes == 2000

\* len(buf.pcm): the pcm is kept as the payloads appended, in order
PcmLen(pcm) == SumSeq(pcm)

\* a variant that lets every buffer through that holds a byte
TooShortNonEmpty(buf) == buf = None \/ PcmLen(buf.pcm) = 0

\* not buf or len(buf.pcm) < 2000
TooShort(buf) == buf = None \/ PcmLen(buf.pcm) < MinUtteranceBytes

\* a variant that keeps the persona recorded at utterance_start
EndPersonaRecorded(msg, buf) == IF buf = None THEN Null ELSE buf.persona

\* data.get("mode", getattr(buf, "mode", "query")) and the same for persona
EndMode(msg, buf) == Get(msg, "mode", IF buf = None THEN "query" ELSE buf.mode)
EndPersona(msg, buf) == Get(msg, "persona", IF buf = None THEN Null ELSE buf.persona)

\* a variant that takes every transcript for text
NoTextNever(text) == FALSE

\* if not text
NoText(text) == text = <<>>

\* a variant that compares with another spelling
IsWakeCased(mode) == mode = "WAKE"

\* if mode == "wake"
IsWake(mode) == mode = "wake"

\* a variant that lets a hello without a secret through
SecretMismatchUnset(hello) == shared_secret # "" /\ hello.secret \notin {Absent, shared_secret}

\* self.shared_secret and hello.get("secret", "") != self.shared_secret
SecretMismatch(hello) == shared_secret # "" /\ Get(hello, "secret", "") # shared_secret

\* a variant that answers with the first word heard
_detect_first_word(text) == IF text = <<>> THEN Null ELSE Lower(text)[1]

_detect_wake_persona(text) ==
    LET t == Lower(text)
    IN IF Contains(t, "samantha") THEN "samantha"
       ELSE IF Contains(t, "krishna") THEN "krishna"
       ELSE Null

_persona_system_prompt(persona) ==
    IF persona \in {Null, ""} THEN Null
    ELSE IF persona \in DOMAIN persona_prompts THEN persona_prompts[persona]
    ELSE Null

\* the messages the server sends
Status(s, detail) == [type |-> "status", state |-> s, detail |-> detail]
WakeResult(persona) == [type |-> "wake_result", persona |-> persona]
AssistantText(persona, text) == [type |-> "assistant_text", persona |-> persona, text |-> text]
TtsStart(persona) == [type |-> "tts_start", persona |-> persona]
TtsEnd(persona) == [type |-> "tts_end", persona |-> persona]
Pcm24k == [type |-> "binary"]

\* the entries of log
SendEv(m) == [ev |-> "send", msg |-> m]
CallEv(op, args) == [ev |-> "call", op |-> op, args |-> args]
ReturnEv(op, val) == [ev |-> "return", op |-> op, val |-> val]
RaiseEv(op) == [ev |-> "raise", op |-> op]
EndEv(buf, mode, persona) == [ev |-> "utterance_end", buf |-> buf, mode |-> mode, persona |-> persona]
ExitEv(how) == [ev |-> "exit", how |-> how]

NoCur == [buf |-> None, mode |-> "query", persona |-> Null, text |-> <<>>, reply |-> <<>>]

NoMsg == [kind |-> "none"]

\* the server as started, before any connection
InitBrain ==
    /\ buffers = << >>
    /\ pc = [c \in Conns |-> "new"]
    /\ open = [c \in Conns |-> FALSE]
    /\ hello_fmt = [c \in Conns |-> [sr |-> 16000, ch |-> 1]]
    /\ cur = [c \in Conns |-> NoCur]
    /\ log = [c \in Conns |-> <<>>]
    /\ last = [conn |-> "none", msg |-> NoMsg, at |-> "new"]

\* one peer
InitServer ==
    InitBrain /\ shared_secret \in {"", "s3cret"} /\ peers = {"ws1"} /\ quota = MaxMsgs

\* several peers at a time
InitServers ==
    InitBrain /\ shared_secret \in {"", "s3cret"} /\ peers = Conns /\ quota = MaxMsgsShared

\* no peer
InitNoServer == InitBrain /\ shared_secret = "" /\ peers = {} /\ quota = 0

\* a message of a peer is taken from connection c
Take(c, msg) ==
    /\ quota > 0
    /\ quota' = quota - 1
    /\ last' = [conn |-> c, msg |-> msg, at |-> pc[c]]
    /\ UNCHANGED <<shared_secret, peers, llmVars, vadVars, audVars>>

\* a step that takes no message
NoTake == UNCHANGED <<shared_secret, peers, quota, last, llmVars, vadVars, audVars>>

\* ws.send(m) for each m of ms, on an open connection
Sends(ms) == [i \in 1..Len(ms) |-> SendEv(ms[i])]

\* send_status: a send whose exceptions are swallowed
StatusIfOpen(c, s, detail) ==
    IF open[c] THEN <<SendEv(Status(s, detail))>> ELSE <<>>

\* a variant in which the end of a handler leaves its entry in self.buffers
ExitKeepsEntry(c, lg, how) ==
    /\ pc' = [pc EXCEPT ![c] = "done"]
    /\ open' = [open EXCEPT ![c] = FALSE]
    /\ buffers' = buffers
    /\ log' = [log EXCEPT ![c] = lg \o <<ExitEv(how)>>]
    /\ cur' = [cur EXCEPT ![c] = NoCur]

\* a variant in which the end of one handler resets every connection's buffer
ExitResetsAll(c, lg, how) ==
    /\ pc' = [pc EXCEPT ![c] = "done"]
    /\ open' = [open EXCEPT ![c] = FALSE]
    /\ buffers' = [d \in DOMAIN buffers \ {c} |-> None]
    /\ log' = [log EXCEPT ![c] = lg \o <<ExitEv(how)>>]
    /\ cur' = [cur EXCEPT ![c] = NoCur]

\* the handler of c ends: the except clauses and the finally of handle_client
Exit(c, lg, how) ==
    /\ pc' = [pc EXCEPT ![c] = "done"]
    /\ open' = [open EXCEPT ![c] = FALSE]
    /\ buffers' = [d \in DOMAIN buffers \ {c} |-> buffers[d]]
    /\ log' = [log EXCEPT ![c] = lg \o <<ExitEv(how)>>]
    /\ cur' = [cur EXCEPT ![c] = NoCur]

\* the handler of c goes on to await the next message
Continue(c, lg) ==
    /\ pc' = [pc EXCEPT ![c] = "loop"]
    /\ log' = [log EXCEPT ![c] = lg]
    /\ cur' = [cur EXCEPT ![c] = NoCur]
    /\ UNCHANGED open

\* websockets starts handle_client for a new connection
Accept(c) ==
    /\ c \in peers
    /\ pc[c] = "new"
    /\ pc' = [pc EXCEPT ![c] = "hello"]
    /\ open' = [open EXCEPT ![c] = TRUE]
    /\ buffers' = (c :> None) @@ buffers
    /\ UNCHANGED <<hello_fmt, cur, log>>
    /\ NoTake

\* the peer closes the connection, or the connection breaks
PeerClose(c) ==
    /\ pc[c] \in {"hello", "loop", "stt", "llm", "tts"}
    /\ open[c]
    /\ open' = [open EXCEPT ![c] = FALSE]
    /\ UNCHANGED <<buffers, pc, hello_fmt, cur, log>>
    /\ NoTake

\* ws.recv() or the async for meets the closed connection
SeeClosed(c) ==
    /\ pc[c] \in {"hello", "loop"}
    /\ ~open[c]
    /\ Exit(c, log[c], "closed")
    /\ UNCHANGED hello_fmt
    /\ NoTake

\* the handshake: the first message of the connection
Handshake(c, raw) ==
    /\ pc[c] = "hello"
    /\ open[c]
    /\ Take(c, raw)
    /\ IF ~JsonOk(raw) \/ ~IsDict(raw)
       THEN Exit(c, log[c], "error") /\ UNCHANGED hello_fmt
       ELSE IF raw.type # "hello"
       THEN Exit(c, log[c], "rejected") /\ UNCHANGED hello_fmt
       ELSE IF ~IntOk(Get(raw, "sr", "16000")) \/ ~IntOk(Get(raw, "ch", "1"))
       THEN Exit(c, log[c], "error") /\ UNCHANGED hello_fmt
       ELSE IF SecretMismatch(raw)
       THEN Exit(c, log[c], "rejected") /\ UNCHANGED hello_fmt
       ELSE /\ hello_fmt' = [hello_fmt EXCEPT ![c] =
                               [sr |-> ToInt(Get(raw, "sr", "16000")),
                                ch |-> ToInt(Get(raw, "ch", "1"))]]
            /\ Continue(c, log[c] \o Sends(<<Status("IDLE", "Connected")>>))
            /\ UNCHANGED buffers

\* a variant in which the loop takes a message while an engine call runs
AwaitingOrBusy(c) == pc[c] \in {"loop", "stt", "llm", "tts"}

\* the handler of c is suspended in `async for msg in ws`
Awaiting(c) == pc[c] = "loop"

\* a variant in which an utterance_start keeps the audio of an open buffer
ReceiveKeepsAudio(c, msg) ==
    /\ Awaiting(c)
    /\ open[c]
    /\ Take(c, msg)
    /\ UNCHANGED hello_fmt
    /\ IF msg.kind = "binary"
       THEN /\ buffers' = IF buffers[c] # None
                           THEN [buffers EXCEPT ![c].pcm = Append(@, msg.len)]
                           ELSE buffers
            /\ UNCHANGED <<pc, open, cur, log>>
       ELSE IF ~JsonOk(msg)
       THEN UNCHANGED <<buffers, pc, open, cur, log>>
       ELSE IF ~IsDict(msg)
       THEN Exit(c, log[c], "error")
       ELSE IF msg.type = "utterance_start"
       THEN LET mode == Get(msg, "mode", "query")
                persona == Get(msg, "persona", Null)
                sr_msg == IF msg.sr = Absent THEN hello_fmt[c].sr ELSE ToInt(msg.sr)
                ch_msg == IF msg.ch = Absent THEN hello_fmt[c].ch ELSE ToInt(msg.ch)
            IN IF (msg.sr # Absent /\ ~IntOk(msg.sr)) \/ (msg.ch # Absent /\ ~IntOk(msg.ch))
               THEN Exit(c, log[c], "error")
               ELSE /\ buffers' = [buffers EXCEPT ![c] =
                                      UtteranceBuffer(IF buffers[c] # None
                                                      THEN buffers[c].pcm ELSE <<>>,
                                                      mode, persona, sr_msg, ch_msg)]
                    /\ log' = [log EXCEPT ![c] = @ \o Sends(<<Status("LISTENING", "Listening")>>)]
                    /\ UNCHANGED <<pc, open, cur>>
       ELSE IF msg.type = "utterance_end"
       THEN LET buf == buffers[c]
                mode == EndMode(msg, buf)
                persona == EndPersona(msg, buf)
                lg == Append(log[c], EndEv(buf, mode, persona))
            IN /\ buffers' = [buffers EXCEPT ![c] = None]
               /\ IF TooShort(buf)
                  THEN /\ log' = [log EXCEPT ![c] = lg \o Sends(<<Status("IDLE", "")>>)]
                       /\ UNCHANGED <<pc, open, cur>>
                  ELSE /\ log' = [log EXCEPT ![c] =
                                    lg \o Sends(<<Status("THINKING", "Transcribing")>>)
                                       \o <<CallEv("stt", <<buf.pcm, buf.sample_rate,
                                                            buf.channels, "en">>)>>]
                       /\ pc' = [pc EXCEPT ![c] = "stt"]
                       /\ cur' = [cur EXCEPT ![c] = [buf |-> buf, mode |-> mode,
                                                     persona |-> persona,
                                                     text |-> <<>>, reply |-> <<>>]]
                       /\ UNCHANGED open
       ELSE UNCHANGED <<buffers, pc, open, cur, log>>

\* one message of the async for loop
Receive(c, msg) ==
    /\ Awaiting(c)
    /\ open[c]
    /\ Take(c, msg)
    /\ UNCHANGED hello_fmt
    /\ IF msg.kind = "binary"
       THEN /\ buffers' = IF buffers[c] # None
                           THEN [buffers EXCEPT ![c].pcm = Append(@, msg.len)]
                           ELSE buffers
            /\ UNCHANGED <<pc, open, cur, log>>
       ELSE IF ~JsonOk(msg)
       THEN UNCHANGED <<buffers, pc, open, cur, log>>
       ELSE IF ~IsDict(msg)
       THEN Exit(c, log[c], "error")
       ELSE IF msg.type = "utterance_start"
       THEN LET mode == Get(msg, "mode", "query")
                persona == Get(msg, "persona", Null)
                sr_msg == IF msg.sr = Absent THEN hello_fmt[c].sr ELSE ToInt(msg.sr)
                ch_msg == IF msg.ch = Absent THEN hello_fmt[c].ch ELSE ToInt(msg.ch)
            IN IF (msg.sr # Absent /\ ~IntOk(msg.sr)) \/ (msg.ch # Absent /\ ~IntOk(msg.ch))
               THEN Exit(c, log[c], "error")
               ELSE /\ buffers' = [buffers EXCEPT ![c] =
                                      UtteranceBuffer(<<>>, mode, persona, sr_msg, ch_msg)]
                    /\ log' = [log EXCEPT ![c] = @ \o Sends(<<Status("LISTENING", "Listening")>>)]
                    /\ UNCHANGED <<pc, open, cur>>
       ELSE IF msg.type = "utterance_end"
       THEN LET buf == buffers[c]
                mode == EndMode(msg, buf)
                persona == EndPersona(msg, buf)
                lg == Append(log[c], EndEv(buf, mode, persona))
            IN /\ buffers' = [buffers EXCEPT ![c] = None]
               /\ IF TooShort(buf)
                  THEN /\ log' = [log EXCEPT ![c] = lg \o Sends(<<Status("IDLE", "")>>)]
                       /\ UNCHANGED <<pc, open, cur>>
                  ELSE /\ log' = [log EXCEPT ![c] =
                                    lg \o Sends(<<Status("THINKING", "Transcribing")>>)
                                       \o <<CallEv("stt", <<buf.pcm, buf.sample_rate,
                                                            buf.channels, "en">>)>>]
                       /\ pc' = [pc EXCEPT ![c] = "stt"]
                       /\ cur' = [cur EXCEPT ![c] = [buf |-> buf, mode |-> mode,
                                                     persona |-> persona,
                                                     text |-> <<>>, reply |-> <<>>]]
                       /\ UNCHANGED open
       ELSE UNCHANGED <<buffers, pc, open, cur, log>>

\* an engine call of c raises: the exception leaves the async for loop
EngineRaises(c) ==
    /\ pc[c] \in {"stt", "llm", "tts"}
    /\ Exit(c, Append(log[c], RaiseEv(pc[c])), "error")
    /\ UNCHANGED hello_fmt
    /\ NoTake

\* pipeline.stt returns: resp.text of the transcription is raw
SttReturns(c, raw) ==
    /\ pc[c] = "stt"
    /\ UNCHANGED hello_fmt
    /\ NoTake
    /\ LET text == Strip(TextOrEmpty(raw))
           mode == cur[c].mode
           persona == cur[c].persona
           lg == Append(log[c], ReturnEv("stt", text))
       IN IF NoText(text)
          THEN Continue(c, lg \o StatusIfOpen(c, "IDLE", "")) /\ UNCHANGED buffers
          ELSE IF IsWake(mode)
          THEN IF ~open[c]
               THEN Exit(c, lg, "closed")
               ELSE /\ Continue(c, lg \o Sends(<<WakeResult(_detect_wake_persona(text)),
                                                   Status("IDLE", "")>>))
                    /\ UNCHANGED buffers
          ELSE /\ log' = [log EXCEPT ![c] =
                            lg \o StatusIfOpen(c, "THINKING", "Thinking")
                               \o <<CallEv("llm", <<_persona_system_prompt(persona)>>)>>]
               /\ pc' = [pc EXCEPT ![c] = "llm"]
               /\ cur' = [cur EXCEPT ![c].text = text]
               /\ UNCHANGED <<buffers, open>>

\* pipeline.llm returns reply
LlmReturns(c, reply) ==
    /\ pc[c] = "llm"
    /\ UNCHANGED hello_fmt
    /\ NoTake
    /\ LET persona == cur[c].persona
           lg == Append(log[c], ReturnEv("llm", reply))
       IN IF ~open[c]
          THEN Exit(c, lg, "closed")
          ELSE /\ log' = [log EXCEPT ![c] =
                            lg \o Sends(<<AssistantText(persona, reply),
                                          Status("SPEAKING", "Speaking"),
                                          TtsStart(persona)>>)
                               \o <<CallEv("tts", <<>>)>>]
               /\ pc' = [pc EXCEPT ![c] = "tts"]
               /\ cur' = [cur EXCEPT ![c].reply = reply]
               /\ UNCHANGED <<buffers, open>>

\* pipeline.tts_pcm24k returns the audio
TtsReturns(c) ==
    /\ pc[c] = "tts"
    /\ UNCHANGED hello_fmt
    /\ NoTake
    /\ LET persona == cur[c].persona
           lg == Append(log[c], ReturnEv("tts", <<"pcm24k">>))
       IN IF ~open[c]
          THEN Exit(c, lg, "closed")
          ELSE /\ Continue(c, lg \o Sends(<<Pcm24k, TtsEnd(persona), Status("IDLE", "")>>))
               /\ UNCHANGED buffers

NextServer ==
    \E c \in Conns :
        \/ Accept(c)
        \/ PeerClose(c)
        \/ SeeClosed(c)
        \/ \E raw \in FirstMsgs : Handshake(c, raw)
        \/ \E msg \in LoopMsgs : Receive(c, msg)
        \/ EngineRaises(c)
        \/ \E raw \in RawTexts : SttReturns(c, raw)
        \/ \E o \in LlmOutcomes : ~o.raised /\ LlmReturns(c, o.reply)
        \/ TtsReturns(c)

\* what BrainWSClient sends: connect() the hello, send_utterance() an
\* utterance_start, the audio and an utterance_end of the same mode and persona
ClientHello == Object("hello", Absent, Absent, <<"16000", "1">>, Absent)
ClientUtterances == { <<"wake", Null>>, <<"query", "samantha">> }
ClientMsgs ==
    { Object("utterance_start", u[1], u[2], <<"16000", "1">>, Absent) : u \in ClientUtterances }
        \cup { Binary(3200) }
        \cup { Object("utterance_end", u[1], u[2], NoFmt, Absent) : u \in ClientUtterances }

\* the peer is the repository's client, no secret configured
InitClientPeer ==
    InitBrain /\ shared_secret = "" /\ peers = {"ws1"} /\ quota = MaxSessionMsgs

\* the transcripts and replies the engine gives such a peer
SessionTexts == { <<>>, <<"hi">>, <<" ", "Hey", "Samantha", " ">> }
SessionReplies == { <<"Done">> }

NextSession ==
    \E c \in Conns :
        \/ Accept(c)
        \/ PeerClose(c)
        \/ SeeClosed(c)
        \/ Handshake(c, ClientHello)
        \/ \E msg \in ClientMsgs : Receive(c, msg)
        \/ EngineRaises(c)
        \/ \E raw \in SessionTexts : SttReturns(c, raw)
        \/ \E reply \in SessionReplies : LlmReturns(c, reply)
        \/ TtsReturns(c)

\* ------------------------------------------------- pipeline.llm, run alone

NotRun == [none |-> TRUE]

SystemPrompts == {Null, "", "You are Samantha."}

InitLlm ==
    /\ llm_in \in [text : {<<"open", "the", "garage">>}, system_prompt : SystemPrompts,
                   env : LlmEnvs]
    /\ llm_out = NotRun

InitNoLlm ==
    /\ llm_in = [text |-> <<>>, system_prompt |-> Null,
                 env |-> [first |-> Response(TRUE, NoneText, <<>>),
                          second |-> Response(TRUE, NoneText, <<>>),
                          world |-> [creds |-> FALSE, devices |-> <<>>]]]
    /\ llm_out = NotRun

\* asyncio.to_thread(self.pipeline.llm, text, sys_prompt), to its end
RunLlm ==
    /\ llm_out = NotRun
    /\ llm_out' = llm(llm_in.text, llm_in.system_prompt, llm_in.env)
    /\ UNCHANGED <<llm_in, srvVars, vadVars, audVars>>

\* --------------------------------------------- client/src/main.py: vad_task

\* frames the mic queue delivers
MaxFrames == 16

IDLE == "IDLE"
AWAIT_QUERY == "AWAIT_QUERY"

sample_rate == 16000
frame_ms == 20
min_speech_frames == 5
end_silence_frames == 10

\* frame_bytes_len of vad_task, and the length of the frames MicStream queues
frame_bytes_len == ((sample_rate * frame_ms) \div 1000) * 2

\* the n-th frame of the mic queue
Frame(n) == [id |-> n, len |-> frame_bytes_len]

\* the length check of vad_task: truncate or zero-pad to frame_bytes_len
FitFrame(frame) ==
    IF frame.len # frame_bytes_len THEN [frame EXCEPT !.len = frame_bytes_len] ELSE frame

DialogStates ==
    { [mode |-> IDLE, current_persona |-> Null],
      [mode |-> AWAIT_QUERY, current_persona |-> "samantha"] }

InitVad ==
    /\ speeching = FALSE
    /\ silence_frames = 0
    /\ speech_frames = <<>>
    /\ state \in DialogStates
    /\ sent = <<>>
    /\ hist = <<>>
    /\ tts_persona = Null
    /\ nread = 0
    /\ sending = Null

InitNoVad ==
    /\ speeching = FALSE
    /\ silence_frames = 0
    /\ speech_frames = <<>>
    /\ state = [mode |-> IDLE, current_persona |-> Null]
    /\ sent = <<>>
    /\ hist = <<>>
    /\ tts_persona = Null
    /\ nread = 0
    /\ sending = Null

\* a variant that waits for one more silence frame
UtteranceReadyLate(silence, frames) ==
    silence > end_silence_frames /\ Len(frames) >= min_speech_frames

\* a variant that does not count the speech frames
UtteranceReadyAnyLength(silence, frames) ==
    silence >= end_silence_frames

\* silence_frames >= end_silence_frames and len(speech_frames) >= min_speech_frames
UtteranceReady(silence, frames) ==
    silence >= end_silence_frames /\ Len(frames) >= min_speech_frames

\* one turn of the while loop of vad_task, up to the await of
\* send_utterance: a frame of the queue, classified
VadFrame(is_speech) ==
    /\ sending = Null
    /\ hist' = Append(hist, is_speech)
    /\ UNCHANGED <<srvVars, llmVars, audVars, tts_persona, nread>>
    /\ LET frame == FitFrame(Frame(Len(hist) + 1))
       IN IF is_speech
          THEN /\ speech_frames' = Append(speech_frames, frame)
               /\ speeching' = TRUE
               /\ silence_frames' = 0
               /\ UNCHANGED <<state, sent, sending>>
          ELSE IF speeching
          THEN IF UtteranceReady(silence_frames + 1, speech_frames)
               THEN LET pcm16 == speech_frames
                        send_mode == IF state.mode = IDLE THEN "wake" ELSE "query"
                        send_persona == IF state.mode = IDLE THEN Null
                                        ELSE state.current_persona
                    IN /\ speech_frames' = <<>>
                       /\ speeching' = FALSE
                       /\ silence_frames' = 0
                       /\ sent' = Append(sent, [pcm16 |-> pcm16, mode |-> send_mode,
                                                persona |-> send_persona,
                                                sr |-> sample_rate, ch |-> 1])
                       /\ sending' = send_mode
                       /\ UNCHANGED state
               ELSE /\ silence_frames' = silence_frames + 1
                    /\ UNCHANGED <<speeching, speech_frames, state, sent, sending>>
          ELSE UNCHANGED <<speeching, silence_frames, speech_frames, state, sent, sending>>

\* a variant that resets the mode and leaves the persona
AfterSendKeepsPersona ==
    /\ sending # Null
    /\ sending' = Null
    /\ state' = IF sending = "query" THEN [state EXCEPT !.mode = IDLE] ELSE state
    /\ UNCHANGED <<srvVars, llmVars, audVars, speeching, silence_frames, speech_frames,
                   sent, hist, tts_persona, nread>>

\* send_utterance has returned: the rest of the turn of vad_task
AfterSend ==
    /\ sending # Null
    /\ sending' = Null
    /\ state' = IF sending = "query"
                THEN [mode |-> IDLE, current_persona |-> Null]
                ELSE state
    /\ UNCHANGED <<srvVars, llmVars, audVars, speeching, silence_frames, speech_frames,
                   sent, hist, tts_persona, nread>>

NextVad ==
    \/ \E is_speech \in BOOLEAN : Len(hist) < MaxFrames /\ VadFrame(is_speech)
    \/ AfterSend

\* ---------------------- client/src/main.py with client/src/brain_ws.py
\* the client and one handler of the server, connected by a websocket

\* the connection of the client
Ws == "ws1"

\* k frames classified as speech, then n as silence
Burst(k, n) == [i \in 1..(k + n) |-> i <= k]

\* what the microphone hears
MicInputs ==
    { Burst(min_speech_frames, end_silence_frames)
          \o Burst(min_speech_frames, end_silence_frames),
      Burst(min_speech_frames + 1, end_silence_frames)
          \o Burst(min_speech_frames, end_silence_frames + 1) }

\* b"".join(speech_frames)
JoinLen(frames) == SumSeq([i \in 1..Len(frames) |-> frames[i].len])

\* the k-th message the client puts on the websocket: connect() sends the
\* hello, send_utterance() an utterance_start, the audio, an utterance_end
WireMsg(k) ==
    IF k = 1 THEN ClientHello
    ELSE LET u == sent[((k - 2) \div 3) + 1]
             part == (k - 2) % 3
         IN IF part = 0
            THEN Object("utterance_start", u.mode, u.persona, <<"16000", "1">>, Absent)
            ELSE IF part = 1
            THEN Binary(JoinLen(u.pcm16))
            ELSE Object("utterance_end", u.mode, u.persona, NoFmt, Absent)

\* messages the client has put on the websocket
WireLen == 1 + 3 * Len(sent)

\* messages the handler has taken from the websocket
Taken == MaxSessionMsgs - quota

\* the handler takes the next message of the client
ServerTakes ==
    /\ Taken < WireLen
    /\ \/ Handshake(Ws, WireMsg(Taken + 1))
       \/ Receive(Ws, WireMsg(Taken + 1))

\* what the handler has sent on the websocket
Sent(c) == SelectSeq(log[c], LAMBDA e : e.ev = "send")

\* vad_task takes a frame; brain.connect() has returned, and a send on a
\* connection the server has left raises and ends the task
VadTask(is_speech) ==
    /\ pc[Ws] # "new"
    /\ ~(pc[Ws] = "done" /\ ~is_speech /\ speeching
           /\ UtteranceReady(silence_frames + 1, speech_frames))
    /\ VadFrame(is_speech)
    /\ \E input \in MicInputs :
           Len(hist') <= Len(input) /\ hist' = SubSeq(input, 1, Len(hist'))

\* one turn of the async for of recv_task
RecvMsg ==
    /\ nread < Len(Sent(Ws))
    /\ nread' = nread + 1
    /\ UNCHANGED <<srvVars, llmVars, audVars,
                   speeching, silence_frames, speech_frames, sent, hist, sending>>
    /\ LET msg == Sent(Ws)[nread + 1].msg
       IN IF msg.type = "binary"
          THEN UNCHANGED <<state, tts_persona>>
          ELSE IF msg.type = "wake_result"
          THEN /\ state' = IF msg.persona # Null /\ msg.persona # ""
                           THEN [mode |-> AWAIT_QUERY, current_persona |-> msg.persona]
                           ELSE [mode |-> IDLE, current_persona |-> Null]
               /\ UNCHANGED tts_persona
          ELSE IF msg.type = "tts_start"
          THEN tts_persona' = msg.persona /\ UNCHANGED state
          ELSE IF msg.type = "tts_end"
          THEN tts_persona' = Null /\ UNCHANGED state
          ELSE UNCHANGED <<state, tts_persona>>

NextClient ==
    \/ Accept(Ws)
    \/ ServerTakes
    \/ EngineRaises(Ws)
    \/ \E raw \in SessionTexts : SttReturns(Ws, raw)
    \/ \E reply \in SessionReplies : LlmReturns(Ws, reply)
    \/ TtsReturns(Ws)
    \/ \E is_speech \in BOOLEAN : VadTask(is_speech)
    \/ AfterSend
    \/ RecvMsg

\* ------------------------------------------- client/src/audio_utils.py
\* a float sample is the fraction num/den, den > 0
F(num, den) == <<num, den>>
Zero == F(0, 1)

\* the list of the values f[1], ..., f[n]
AsSeq(f) == <<>> \o f

\* truncation toward zero, as astype(np.int16) and int() do
Quot(a, b) == IF a >= 0 THEN a \div b ELSE -((-a) \div b)

\* np.clip(x, -1.0, 1.0) of one sample
Clip(x) == IF x[1] > x[2] THEN F(1, 1) ELSE IF x[1] < -x[2] THEN F(-1, 1) ELSE x

\* a variant that writes one byte for a sample
ToBytesNarrow(samples) == [k \in 1..Len(samples) |-> samples[k] % 256]

\* ndarray.tobytes() of int16 samples: two bytes each, low byte first
ToBytes(samples) ==
    LET n == Len(samples)
    IN AsSeq([k \in 1..(2 * n) |->
                LET u == samples[(k + 1) \div 2] % 65536
                IN IF k % 2 = 1 THEN u % 256 ELSE u \div 256])

\* sample j of np.frombuffer(pcm, dtype=np.int16)
FromBuffer(pcm, j) ==
    LET u == pcm[2 * j - 1] + 256 * pcm[2 * j]
    IN IF u >= 32768 THEN u - 65536 ELSE u

\* defined for an even number of bytes
pcm16_to_float(pcm) ==
    LET n == Len(pcm) \div 2
    IN AsSeq([j \in 1..n |-> F(FromBuffer(pcm, j), 32768)])

float_to_pcm16(x) ==
    LET n == Len(x)
    IN ToBytes(AsSeq([j \in 1..n |-> Quot(Clip(x[j])[1] * 32767, Clip(x[j])[2])]))

\* round() of the quotient a/b, a >= 0: to the nearest, a tie to the even
Round(a, b) ==
    LET q == a \div b
        r2 == 2 * (a % b)
    IN IF r2 < b THEN q
       ELSE IF r2 > b THEN q + 1
       ELSE IF q % 2 = 0 THEN q ELSE q + 1

\* the linear interpolation of resample_float, in exact fractions
resample_float(x, src_sr, dst_sr) ==
    IF src_sr = dst_sr THEN x
    ELSE LET src_len == Len(x)
             dst_len == Round(src_len * dst_sr, src_sr)
         IN IF dst_len <= 1 THEN <<Zero>>
            ELSE AsSeq([k \in 1..dst_len |->
                    LET den == dst_len - 1
                        pos == (k - 1) * (src_len - 1)
                        left == pos \div den
                        right == IF left + 1 < src_len - 1 THEN left + 1 ELSE src_len - 1
                        r == pos % den
                        xl == x[left + 1]
                        xr == x[right + 1]
                    IN IF xl[2] = xr[2]
                       THEN F((den - r) * xl[1] + r * xr[1], den * xl[2])
                       ELSE F((den - r) * xl[1] * xr[2] + r * xr[1] * xl[2],
                              den * xl[2] * xr[2])])

\* --------------------------------------------- client/src/audio_io.py
\* calls of the mic callback, play_pcm16 and the queue consumers
MaxAudioCalls == 3

\* queue.Queue(maxsize=400) of MicStream, queue.Queue(maxsize=200) of SpeakerOut
MicQueueMax == 400
SpeakerQueueMax == 200

\* a variant of a queue that is never full
FullNever(qlen, maxsize) == FALSE

\* put_nowait raises queue.Full
Full(qlen, maxsize) == qlen >= maxsize

\* the put_nowait calls of one loop over items, none of them blocking: a
\* put is kept while no put before it found the queue full, and each finds
\* the queue as the puts before it left it
Puts(q, items, maxsize) ==
    LET full == { j \in 1..Len(items) : Full(Len(q) + j - 1, maxsize) }
        n == IF full = {} THEN Len(items)
             ELSE (CHOOSE j \in full : \A i \in full : j <= i) - 1
        len == Len(q)
        count == Len(items)
    IN AsSeq([j \in 1..count |->
                [item |-> items[j],
                 qlen |-> len + (IF j - 1 < n THEN j - 1 ELSE n),
                 kept |-> j <= n]])

Kept(puts) ==
    LET k == SelectSeq(puts, LAMBDA e : e.kept)
        n == Len(k)
    IN AsSeq([i \in 1..n |-> k[i].item])

\* int(self.target_sr * self.frame_ms / 1000)
FrameLen(m) == (m.target_sr * m.frame_ms) \div 1000

\* MicStream(device_substr, target_samplerate, frame_ms) on a device of hw_sr
MicConfigs ==
    { [hw_sr |-> 100, target_sr |-> 100, frame_ms |-> 20],
      [hw_sr |-> 300, target_sr |-> 150, frame_ms |-> 20],
      [hw_sr |-> 125, target_sr |-> 125, frame_ms |-> 20] }

\* SpeakerOut(device_substr, samplerate, channels, blocksize)
SpeakerConfigs ==
    { [samplerate |-> 24000, channels |-> 2, blocksize |-> 2],
      [samplerate |-> 48000, channels |-> 1, blocksize |-> 3],
      [samplerate |-> 12000, channels |-> 2, blocksize |-> 4] }

\* indata[:, 0] of one callback: a few irregular batches, and one long enough
\* to overrun the queue
LongBatch == AsSeq([i \in 1..((MicQueueMax + 1) * 2) |-> F((i % 5) - 2, 2)])
Batches ==
    { <<F(1, 2)>>,
      <<F(-3, 2), F(1, 4)>>,
      <<F(1, 1), F(-1, 1), F(1, 3)>>,
      <<F(1, 4), F(2, 4), F(3, 4), F(-1, 4), F(-2, 4)>>,
      LongBatch }

\* the audio payloads of the server, as bytes
LongPayload == ToBytes(AsSeq([i \in 1..((SpeakerQueueMax + 1) * 2) |-> i]))
Payloads ==
    { <<>>,
      ToBytes(<<1000>>),
      ToBytes(<<-32768, 32767, 5>>),
      ToBytes(<<7, -7, 300, -300, 1>>),
      <<1, 2, 3>>,
      LongPayload }

InitAudio ==
    /\ \E i \in 1..3 :
          /\ mic = (CHOOSE f \in [1..3 -> MicConfigs] :
                        f[1].hw_sr = 100 /\ f[2].hw_sr = 300 /\ f[3].hw_sr = 125)[i]
          /\ spk = (CHOOSE f \in [1..3 -> SpeakerConfigs] :
                        f[1].blocksize = 2 /\ f[2].blocksize = 3 /\ f[3].blocksize = 4)[i]
    /\ _accum = <<>>
    /\ mic_q = <<>>
    /\ mic_in = <<>>
    /\ mic_put = <<>>
    /\ mic_got = 0
    /\ spk_q = <<>>
    /\ plays = <<>>
    /\ spk_put = <<>>
    /\ spk_got = 0
    /\ outdata = <<>>
    /\ aud_left = MaxAudioCalls

InitNoAudio ==
    /\ mic = [hw_sr |-> 100, target_sr |-> 100, frame_ms |-> 20]
    /\ spk = [samplerate |-> 24000, channels |-> 2, blocksize |-> 2]
    /\ _accum = <<>>
    /\ mic_q = <<>>
    /\ mic_in = <<>>
    /\ mic_put = <<>>
    /\ mic_got = 0
    /\ spk_q = <<>>
    /\ plays = <<>>
    /\ spk_put = <<>>
    /\ spk_got = 0
    /\ outdata = <<>>
    /\ aud_left = 0

\* one audio call is made
AudioCall ==
    /\ aud_left > 0
    /\ aud_left' = aud_left - 1
    /\ UNCHANGED <<mic, spk, srvVars, llmVars, vadVars>>

\* MicStream.start.cb: one callback of the input stream
MicCb(indata) ==
    /\ AudioCall
    /\ \E x_rs \in {resample_float(indata, mic.hw_sr, mic.target_sr)} :
       \E acc \in {_accum \o x_rs} :
       \E frame_len \in {FrameLen(mic)} :
       \E n \in {Len(acc) \div frame_len} :
       \E pcms \in {[k \in 1..n |->
                      float_to_pcm16(SubSeq(acc, (k - 1) * frame_len + 1, k * frame_len))]} :
       \E puts \in {Puts(mic_q, pcms, MicQueueMax)} :
          /\ _accum' = SubSeq(acc, n * frame_len + 1, Len(acc))
          /\ mic_in' = mic_in \o x_rs
          /\ mic_put' = mic_put \o puts
          /\ mic_q' = mic_q \o Kept(puts)
    /\ UNCHANGED <<mic_got, spk_q, plays, spk_put, spk_got, outdata>>

\* vad_task: q.get() returns the oldest frame
MicGet ==
    /\ AudioCall
    /\ mic_q # <<>>
    /\ mic_q' = Tail(mic_q)
    /\ mic_got' = mic_got + 1
    /\ UNCHANGED <<_accum, mic_in, mic_put, spk_q, plays, spk_put, spk_got, outdata>>

\* a variant that leaves the last chunk short
ChunkShort(x, i, step) ==
    SubSeq(x, i + 1, IF i + step < Len(x) THEN i + step ELSE Len(x))

\* chunk = x[i:i+step], padded with zeros to step samples
Chunk(x, i, step) ==
    AsSeq([j \in 1..step |-> IF i + j <= Len(x) THEN x[i + j] ELSE Zero])

\* SpeakerOut.play_pcm16(pcm, src_sr)
PlayPcm16(pcm, src_sr) ==
    /\ AudioCall
    /\ UNCHANGED <<_accum, mic_q, mic_in, mic_put, mic_got, spk_got, outdata>>
    /\ IF Len(pcm) % 2 # 0
       THEN /\ plays' = Append(plays, [raised |-> TRUE, x |-> <<>>, before |-> Len(spk_q),
                                       first |-> Len(spk_put) + 1, n |-> 0])
            /\ UNCHANGED <<spk_q, spk_put>>
       ELSE \E x0 \in {pcm16_to_float(pcm)} :
            \E x \in {IF src_sr # spk.samplerate
                      THEN resample_float(x0, src_sr, spk.samplerate) ELSE x0} :
            \E step \in {spk.blocksize} :
            \E n \in {(Len(x) + step - 1) \div step} :
            \E chunks \in {[k \in 1..n |-> Chunk(x, (k - 1) * step, step)]} :
            \E puts \in {Puts(spk_q, chunks, SpeakerQueueMax)} :
               /\ plays' = Append(plays, [raised |-> FALSE, x |-> x, before |-> Len(spk_q),
                                          first |-> Len(spk_put) + 1, n |-> n])
               /\ spk_put' = spk_put \o puts
               /\ spk_q' = spk_q \o Kept(puts)

\* SpeakerOut.start.cb: one callback of the output stream, for `frames` frames
SpeakerCb(frames) ==
    /\ AudioCall
    /\ UNCHANGED <<_accum, mic_q, mic_in, mic_put, mic_got, plays, spk_put>>
    /\ IF spk_q = <<>>
       THEN /\ outdata' = AsSeq([i \in 1..frames |-> AsSeq([c \in 1..spk.channels |-> Zero])])
            /\ UNCHANGED <<spk_q, spk_got>>
       ELSE LET x == Head(spk_q)
                n == IF frames < Len(x) THEN frames ELSE Len(x)
            IN /\ outdata' = AsSeq([i \in 1..frames |->
                                AsSeq([c \in 1..spk.channels |->
                                    IF i <= n /\ c <= 2 THEN x[i] ELSE Zero])])
               /\ spk_q' = Tail(spk_q)
               /\ spk_got' = spk_got + 1

NextAudio ==
    \/ \E indata \in Batches : MicCb(indata)
    \/ MicGet
    \/ \E pcm \in Payloads : PlayPcm16(pcm, 24000)
    \/ SpeakerCb(spk.blocksize)

\* ------------------------------------------------------ the specifications
\* the server with one peer
Init == InitServer /\ InitNoLlm /\ InitNoVad /\ InitNoAudio
Next == NextServer
Spec == Init /\ [][Next]_vars

\* the server with several peers at a time
InitConns == InitServers /\ InitNoLlm /\ InitNoVad /\ InitNoAudio
SpecConns == InitConns /\ [][NextServer]_vars

\* the server with the repository's client as its one peer
InitSession == InitClientPeer /\ InitNoLlm /\ InitNoVad /\ InitNoAudio
SpecSession == InitSession /\ [][NextSession]_vars

\* pipeline.llm on every environment
InitLlmAlone == InitNoServer /\ InitLlm /\ InitNoVad /\ InitNoAudio
NextLlm == RunLlm
SpecLlm == InitLlmAlone /\ [][NextLlm]_vars

\* the client as main_async starts it, and the handler of its connection
InitClient == InitClientPeer /\ InitNoLlm /\ InitNoVad /\ InitNoAudio
SpecClient == InitClient /\ [][NextClient]_vars

\* vad_task on every classification of the frames
InitVadAlone == InitNoServer /\ InitNoLlm /\ InitVad /\ InitNoAudio
SpecVad == InitVadAlone /\ [][NextVad]_vars

\* the mic callback, play_pcm16 and the consumers of their queues
InitAudioAlone == InitNoServer /\ InitNoLlm /\ InitNoVad /\ InitAudio
SpecAudio == InitAudioAlone /\ [][NextAudio]_vars

\* ------------------------------------------------------------- the claims
IsEnd(e) == e.ev = "utterance_end"
IsCall(e, op) == e.ev = "call" /\ e.op = op
IdleStatus == SendEv(Status("IDLE", ""))

\* the utterance_end entry of lg that entry i belongs to
EndOf(lg, i) == CHOOSE j \in 1..i : IsEnd(lg[j]) /\ \A k \in (j + 1)..i : ~IsEnd(lg[k])

\* entries i+1.. of lg up to the next utterance_end
SameUtterance(lg, i, k) == k > i /\ k <= Len(lg) /\ \A j \in (i + 1)..k : ~IsEnd(lg[j])

\* the buffer of an utterance_end is none, or holds fewer bytes than the minimum
ShortBuffer(buf) == buf = None \/ SumSeq(buf.pcm) < MinUtteranceBytes

\* C1: an engine call that raises while an utterance_end is handled is
\* answered by a status IDLE and the handler keeps running: what follows the
\* failure in the log of the connection is the status IDLE (or the end of a
\* handler whose peer has gone), never the end of the handler on an error.
C1_EngineErrorSurfacedAsIdle ==
    \A c \in Conns : \A i \in 1..Len(log[c]) :
        log[c][i].ev = "raise" =>
            /\ i < Len(log[c])
            /\ log[c][i + 1] \in {IdleStatus, ExitEv("closed")}

\* C2 as stated: no completion call is made for an utterance whose buffer was
\* opened by an utterance_start with mode wake.
C2_WakeStartNeverCompletes ==
    \A c \in Conns : \A i \in 1..Len(log[c]) :
        IsCall(log[c][i], "llm") => log[c][EndOf(log[c], i)].buf.mode # "wake"

\* C2 as amended: no completion call and no synthesis call is made for an
\* utterance whose mode at utterance_end (the mode of the utterance_end
\* message, else the mode recorded at utterance_start) is wake; a non-empty
\* transcript of such an utterance is answered by wake_result alone.
C2_WakeEndNeverCompletes ==
    \A c \in Conns : \A i \in 1..Len(log[c]) :
        LET lg == log[c] IN
        /\ IsCall(lg[i], "llm") \/ IsCall(lg[i], "tts") => lg[EndOf(lg, i)].mode # "wake"
        /\ ( /\ lg[i].ev = "return" /\ lg[i].op = "stt" /\ lg[i].val # <<>>
             /\ lg[EndOf(lg, i)].mode = "wake"
             /\ i < Len(lg) )
           => \/ lg[i + 1] = ExitEv("closed")
              \/ /\ lg[i + 1] \in { SendEv(WakeResult(p)) : p \in {Null, "samantha", "krishna"} }
                 /\ i + 1 < Len(lg)
                 /\ lg[i + 2] = IdleStatus

\* a wake utterance whose utterance_start said query has been answered
C2_Witness ==
    \E c \in Conns : \E i \in 1..Len(log[c]) :
        /\ IsEnd(log[c][i]) /\ log[c][i].mode = "wake" /\ log[c][i].buf # None
        /\ log[c][i].buf.mode = "query"
        /\ \E k \in (i + 1)..Len(log[c]) :
              SameUtterance(log[c], i, k) /\ log[c][k] = SendEv(WakeResult("samantha"))

\* C3: an utterance_end that finds no buffer or a buffer below the minimum
\* never leads to a transcription call: it is answered by a status IDLE and
\* nothing else, the buffer is gone and the handler awaits the next message.
C3_ShortUtteranceNeverTranscribed ==
    \A c \in Conns :
        LET lg == log[c] IN
        /\ \A i \in 1..Len(lg) :
              /\ IsCall(lg[i], "stt") => ~ShortBuffer(lg[EndOf(lg, i)].buf)
              /\ IsEnd(lg[i]) /\ ShortBuffer(lg[i].buf) =>
                    /\ i < Len(lg)
                    /\ lg[i + 1] = IdleStatus
                    /\ \A k \in (i + 2)..Len(lg) :
                          SameUtterance(lg, i, k) =>
                              lg[k] \in {SendEv(Status("LISTENING", "Listening")),
                                         ExitEv("closed"), ExitEv("error")}
        /\ ( /\ Len(lg) >= 2
             /\ IsEnd(lg[Len(lg) - 1])
             /\ ShortBuffer(lg[Len(lg) - 1].buf) )
           => pc[c] = "loop" /\ buffers[c] = None

\* an utterance_end has met a buffer that holds bytes, but too few
C3_Witness ==
    \E c \in Conns :
        /\ Len(log[c]) >= 2
        /\ IsEnd(log[c][Len(log[c]) - 1])
        /\ log[c][Len(log[c]) - 1].buf # None
        /\ log[c][Len(log[c]) - 1].buf.pcm = <<1000>>
        /\ log[c][Len(log[c])] = IdleStatus
        /\ last.msg.kind = "object" /\ last.msg.type = "utterance_end"

\* C4: after a transcription that returns empty text no completion and no
\* synthesis call is made for that utterance, in either mode, and the only
\* message the utterance still gets is the status IDLE.
C4_EmptyTranscriptOnlyIdle ==
    \A c \in Conns : \A i \in 1..Len(log[c]) :
        LET lg == log[c] IN
        lg[i] = ReturnEv("stt", <<>>) =>
            /\ i < Len(lg) => lg[i + 1] \in {IdleStatus, ExitEv("closed")}
            /\ open[c] => i < Len(lg) /\ lg[i + 1] = IdleStatus
            /\ \A k \in (i + 2)..Len(lg) :
                  SameUtterance(lg, i, k) =>
                      lg[k] \in {SendEv(Status("LISTENING", "Listening")),
                                 ExitEv("closed"), ExitEv("error")}

\* a query utterance has been transcribed to empty text and answered
C4_Witness ==
    \E c \in Conns : \E i \in 1..Len(log[c]) :
        /\ log[c][i] = ReturnEv("stt", <<>>)
        /\ log[c][EndOf(log[c], i)].mode = "query"
        /\ i < Len(log[c]) /\ log[c][i + 1] = IdleStatus
        /\ pc[c] = "loop"

\* the first message of a connection that the handshake must refuse
Refused(raw) ==
    \/ raw.kind # "object"
    \/ raw.type # "hello"
    \/ shared_secret # "" /\ raw.secret # shared_secret

\* C6: when the first message of a connection is no hello, or a secret is
\* configured and the hello does not carry it, the handler ends at once and
\* the connection is closed: nothing was sent, no buffer is registered, and
\* no further message of the connection can be taken.
C6_HandshakeRefused ==
    \A c \in Conns :
        /\ (last.conn = c /\ last.at = "hello" /\ Refused(last.msg)) =>
              /\ pc[c] = "done"
              /\ ~open[c]
              /\ c \notin DOMAIN buffers
              /\ log[c] \in {<<ExitEv("rejected")>>, <<ExitEv("error")>>}
        /\ pc[c] = "done" =>
              /\ ~ENABLED (\E m \in LoopMsgs : Receive(c, m))
              /\ ~ENABLED (\E m \in FirstMsgs : Handshake(c, m))

\* a hello without the configured secret has been refused
C6_Witness ==
    \E c \in Conns :
        /\ last.conn = c /\ last.at = "hello"
        /\ last.msg.kind = "object" /\ last.msg.type = "hello"
        /\ shared_secret # "" /\ last.msg.secret = Absent
        /\ IntOk(Get(last.msg, "sr", "16000")) /\ IntOk(Get(last.msg, "ch", "1"))
        /\ pc[c] = "done"

\* a control message that is no well-formed message of a known kind
Malformed(msg) ==
    \/ msg.kind \in {"badjson", "nonobject"}
    \/ /\ msg.kind = "object"
       /\ \/ msg.type \notin {"utterance_start", "utterance_end"}
          \/ msg.type = "utterance_start" /\ Bad \in {msg.sr, msg.ch}

\* C9: a malformed control message taken after the handshake is skipped: the
\* handler goes on awaiting messages on the open connection, the buffer of
\* the connection and its log (so the calls made) are as they were.
C9_MalformedSkipped ==
    [][ \A c \in Conns :
          (quota' < quota /\ last'.conn = c /\ last'.at = "loop" /\ Malformed(last'.msg)) =>
              /\ pc'[c] = "loop"
              /\ open'[c]
              /\ c \in DOMAIN buffers'
              /\ buffers'[c] = buffers[c]
              /\ log'[c] = log[c] ]_vars

\* the tool-result messages of a run of llm, in order
ToolMessages(out) == SelectSeq(out.messages, LAMBDA m : m.role = "tool")

\* C5: when the first completion response carries no tool call, llm makes no
\* tool dispatch and no second request; when it carries N >= 1 tool calls,
\* llm dispatches exactly these N calls in order, answers each by one
\* tool-result message with the id of the call, and issues exactly one
\* second request, which offers no tools; there is never a third request.
C5_ToolRoundCounts ==
    (llm_out # NotRun /\ ~llm_in.env.first.raises) =>
        LET tool_calls == llm_in.env.first.tool_calls
            N == Len(tool_calls)
        IN /\ Len(llm_out.requests) <= 2
           /\ N = 0 => /\ llm_out.dispatched = <<>>
                       /\ llm_out.controller = <<>>
                       /\ Len(llm_out.requests) = 1
           /\ N >= 1 => /\ Len(llm_out.dispatched) = N
                        /\ \A i \in 1..N : llm_out.dispatched[i].id = tool_calls[i].id
                        /\ Len(ToolMessages(llm_out)) = N
                        /\ \A i \in 1..N :
                              ToolMessages(llm_out)[i].tool_call_id = tool_calls[i].id
                        /\ Len(llm_out.requests) = 2
                        /\ ~llm_out.requests[2].tools

\* tool call i of the first response asks for a garage action that fails
\* (async_open or async_close raises) or that finds no garage device
GarageFound(world) ==
    \E i \in 1..Len(world.devices) :
        world.devices[i].device_type \in {"msg100", "garage_opener"}

DeviceFails(env, i) ==
    /\ env.first.tool_calls[i].name \in {"garage_open", "garage_close"}
    /\ \/ ~GarageFound(env.world) /\ env.first.faults[i] = "none"
       \/ GarageFound(env.world) /\ env.first.faults[i] = "action"

\* nothing else goes wrong in the run: the credentials are set, every
\* tool call has arguments that _call_tool can read, and the device library
\* raises nowhere but in the garage action
OnlyDeviceFailures(env) ==
    /\ env.world.creds
    /\ ~env.first.raises
    /\ \A j \in 1..Len(env.first.tool_calls) :
          /\ env.first.tool_calls[j].arguments.kind # "nonobject"
          /\ env.first.faults[j] \in {"none", "action"}

\* C10: a tool call whose garage action fails, or that finds no garage
\* device, is answered by a tool-result message for that call with ok false;
\* the second completion request is still issued, and llm raises only if
\* that second request does.
C10_DeviceFailureIsAValue ==
    (llm_out # NotRun /\ OnlyDeviceFailures(llm_in.env)) =>
        \A i \in 1..Len(llm_in.env.first.tool_calls) :
            DeviceFails(llm_in.env, i) =>
                /\ \E k \in 1..Len(llm_out.messages) :
                      LET m == llm_out.messages[k] IN
                      /\ m.role = "tool"
                      /\ m.tool_call_id = llm_in.env.first.tool_calls[i].id
                      /\ ~m.content.ok
                /\ Len(llm_out.requests) = 2
                /\ (llm_out.raised => llm_in.env.second.raises)

\* the frames so far are k silence frames, then n speech frames, then silence
\* frames only
OneBurst(k, n) ==
    /\ k + n <= Len(hist)
    /\ \A i \in 1..Len(hist) : hist[i] <=> (k < i /\ i <= k + n)

\* C7: from the initial state, a run of at least min_speech_frames speech
\* frames followed by at least end_silence_frames silence frames has sent
\* exactly one utterance, made of exactly the speech frames in their order.
C7_BurstSendsOneUtterance ==
    \A n \in min_speech_frames..Len(hist) :
        \A k \in 0..(Len(hist) - n - end_silence_frames) :
            OneBurst(k, n) =>
            /\ Len(sent) = 1
            /\ sent[1].pcm16 = [i \in 1..n |-> Frame(k + i)]

\* min_speech_frames speech frames and more than end_silence_frames silence
\* frames have gone by, and the utterance is out
C7_Witness ==
    /\ OneBurst(0, min_speech_frames)
    /\ Len(hist) - min_speech_frames > end_silence_frames
    /\ Len(sent) = 1

\* C8: fewer than min_speech_frames speech frames followed by silence
\* frames, however many, send no utterance.
C8_BlipSendsNothing ==
    sent # <<>> =>
        \A n \in 0..(min_speech_frames - 1) : \A k \in 0..(Len(hist) - n) :
            ~OneBurst(k, n)

\* one speech frame short of an utterance, and the silence has passed
\* end_silence_frames
C8_Witness ==
    /\ OneBurst(0, min_speech_frames - 1)
    /\ Len(hist) - (min_speech_frames - 1) > end_silence_frames
    /\ speeching
    /\ sent = <<>>

Listening == SendEv(Status("LISTENING", "Listening"))

\* C11: the utterances of a connection are processed one at a time: a
\* transcription starts right at its utterance_end; whatever is sent for a
\* later utterance (the LISTENING of its utterance_start, and all that
\* follows its utterance_end) comes after the final status IDLE of the
\* utterance before, with nothing but LISTENING in between; and while an
\* engine call of the connection runs no message of the connection is taken.
C11_OneUtteranceAtATime ==
    \A c \in Conns :
        LET lg == log[c] IN
        /\ \A i \in 1..Len(lg) :
              /\ IsCall(lg[i], "stt") =>
                    /\ i > 2
                    /\ IsEnd(lg[i - 2])
                    /\ lg[i - 1] = SendEv(Status("THINKING", "Transcribing"))
              /\ IsEnd(lg[i]) =>
                    \A j \in (i + 1)..Len(lg) :
                        (SameUtterance(lg, i, j - 1) /\ (lg[j] = Listening \/ IsEnd(lg[j]))) =>
                            \E m \in (i + 1)..(j - 1) :
                                /\ lg[m] = IdleStatus
                                /\ \A n \in (i + 1)..(m - 1) : lg[n] # Listening
                                /\ \A n \in (m + 1)..(j - 1) : lg[n] = Listening
        /\ pc[c] \in {"stt", "llm", "tts"} => ~ENABLED (\E msg \in LoopMsgs : Receive(c, msg))

\* two utterances of one connection have been transcribed, a query and then
\* a wake utterance, and both are answered
C11_Witness ==
    \E c \in Conns : \E i, j \in 1..Len(log[c]) :
        /\ i < j
        /\ IsCall(log[c][i], "stt") /\ IsCall(log[c][j], "stt")
        /\ \E k \in i..j : log[c][k] = SendEv(TtsEnd("samantha"))
        /\ log[c][Len(log[c])] = IdleStatus
        /\ pc[c] = "loop"

\* the samples of a PCM16 frame, two bytes each
FrameSamples == (mic.target_sr * mic.frame_ms) \div 1000

\* C12: every frame the mic callback emits has exactly 2 * frameSamples
\* bytes; the frames emitted so far are, in order, the PCM16 of the resampled
\* samples received so far, all but a tail; that tail is what the callback
\* retains, and it is shorter than one frame.
C12_FramesCoverInput ==
    LET emitted == Len(mic_put) IN
    /\ \A i \in 1..emitted :
          /\ Len(mic_put[i].item) = 2 * FrameSamples
          /\ mic_put[i].item =
                float_to_pcm16(SubSeq(mic_in, (i - 1) * FrameSamples + 1, i * FrameSamples))
    /\ emitted = Len(mic_in) \div FrameSamples
    /\ _accum = SubSeq(mic_in, emitted * FrameSamples + 1, Len(mic_in))
    /\ Len(_accum) < FrameSamples

\* batches of irregular sizes have been resampled and framed, a tail is
\* retained and a frame holds samples of two batches
C12_Witness ==
    /\ mic.hw_sr # mic.target_sr
    /\ aud_left = 0
    /\ mic_got = 0
    /\ Len(mic_put) >= 1
    /\ Len(mic_in) = 5
    /\ Len(_accum) = 2

\* C13: neither queue ever holds more than its capacity; a put that finds
\* the queue full is dropped and every other put is kept, so that the queue
\* holds the kept units in the order of their puts, less the ones taken
\* from its head; and a full queue does not keep the mic callback or
\* play_pcm16 from running to its end.
C13_QueuesBoundedAndLossy ==
    /\ Len(mic_q) <= MicQueueMax
    /\ Len(spk_q) <= SpeakerQueueMax
    /\ \A i \in 1..Len(mic_put) : mic_put[i].kept <=> mic_put[i].qlen < MicQueueMax
    /\ \A i \in 1..Len(spk_put) : spk_put[i].kept <=> spk_put[i].qlen < SpeakerQueueMax
    /\ mic_q = SubSeq(Kept(mic_put), mic_got + 1, Len(Kept(mic_put)))
    /\ spk_q = SubSeq(Kept(spk_put), spk_got + 1, Len(Kept(spk_put)))
    /\ (Len(mic_q) = MicQueueMax /\ aud_left > 0) =>
          ENABLED (\E indata \in Batches : MicCb(indata) /\ mic_q' = mic_q)
    /\ (Len(spk_q) = SpeakerQueueMax /\ aud_left > 0) =>
          ENABLED (\E pcm \in Payloads : PlayPcm16(pcm, 24000) /\ spk_q' = spk_q)

\* both queues are full and each has dropped a unit
C13_Witness ==
    /\ Len(mic_q) = MicQueueMax
    /\ Len(spk_q) = SpeakerQueueMax
    /\ \E i \in 1..Len(mic_put) : ~mic_put[i].kept
    /\ \E i \in 1..Len(spk_put) : ~spk_put[i].kept

\* the puts of call p of play_pcm16
PutsOf(p) == SubSeq(spk_put, p.first, p.first + p.n - 1)

\* the blocks of call p are whole, ceil(n/blocksize) of them, and hold the
\* samples of the payload in order, followed by zeros
BlocksOf(p) ==
    LET blocks == PutsOf(p)
        count == (Len(p.x) + spk.blocksize - 1) \div spk.blocksize
    IN /\ p.n = count
       /\ Len(blocks) = count
       /\ \A k \in 1..count :
             /\ Len(blocks[k].item) = spk.blocksize
             /\ \A j \in 1..spk.blocksize :
                   blocks[k].item[j] =
                       IF (k - 1) * spk.blocksize + j <= Len(p.x)
                       THEN p.x[(k - 1) * spk.blocksize + j] ELSE Zero

WakeScenario(lg) ==
    /\ Len(lg) >= 3
    /\ lg[1] = SendEv(Status("IDLE", "Connected"))
    /\ lg[2] = Listening
    /\ IsEnd(lg[3])
    /\ lg[3].buf # None
    /\ lg[3].buf.mode = "wake"
    /\ lg[3].buf.pcm = <<3200>>

\* the entries of lg that answer its first utterance_end
Answer(lg) == { k \in 4..Len(lg) : SameUtterance(lg, 3, k) /\ \A j \in 4..(k - 1) : lg[j] # IdleStatus }

IsStatus(e, s) == e.ev = "send" /\ e.msg.type = "status" /\ e.msg.state = s
IsWakeResult(e) == e.ev = "send" /\ e.msg.type = "wake_result"
KnownPersonas == {"samantha", "krishna"}

\* C15 as stated: once the scenario has been handled with no failure (the
\* handler awaits the next message of the open connection), the server has
\* sent exactly one LISTENING, exactly one THINKING and a wake_result whose
\* persona is a known one or null.
C15_WakeScenarioAnswered ==
    \A c \in Conns :
        LET lg == log[c] IN
        (WakeScenario(lg) /\ pc[c] = "loop" /\ open[c]) =>
            /\ Cardinality({ k \in 1..3 : IsStatus(lg[k], "LISTENING") }
                               \cup { k \in Answer(lg) : IsStatus(lg[k], "LISTENING") }) = 1
            /\ Cardinality({ k \in Answer(lg) : IsStatus(lg[k], "THINKING") }) = 1
            /\ \E k \in Answer(lg) :
                  IsWakeResult(lg[k]) /\ lg[k].msg.persona \in KnownPersonas \cup {Null}

\* C15 as amended: in the scenario with an utterance_end whose mode is wake
\* (its own, or the recorded one when it carries none), the server has sent
\* one LISTENING, then one THINKING right at the utterance_end, and calls the
\* transcription; when that returns text, the answer is one wake_result
\* whose persona is a known one or null, then the status IDLE (unless the
\* peer has gone); when it returns no text or raises, no wake_result is sent.
C15_WakeScenarioAnsweredIfHeard ==
    \A c \in Conns :
        LET lg == log[c] IN
        (WakeScenario(lg) /\ lg[3].mode = "wake") =>
            /\ Len(lg) >= 5
            /\ lg[4] = SendEv(Status("THINKING", "Transcribing"))
            /\ IsCall(lg[5], "stt")
            /\ \A k \in Answer(lg) :
                  /\ ~IsStatus(lg[k], "LISTENING")
                  /\ IsStatus(lg[k], "THINKING") => k = 4
                  /\ IsWakeResult(lg[k]) =>
                        /\ k = 7
                        /\ lg[6].ev = "return" /\ lg[6].val # <<>>
                        /\ lg[k].msg.persona \in KnownPersonas \cup {Null}
            /\ (Len(lg) >= 6 /\ lg[6].ev = "return" /\ lg[6].val # <<>>) =>
                  \/ /\ Len(lg) >= 8
                     /\ IsWakeResult(lg[7])
                     /\ lg[8] = IdleStatus
                  \/ /\ Len(lg) = 7
                     /\ lg[7] = ExitEv("closed")

\* the scenario has been answered by the wake_result for samantha
C15_Witness ==
    \E c \in Conns :
        /\ WakeScenario(log[c])
        /\ log[c][3].mode = "wake"
        /\ Len(log[c]) = 8
        /\ log[c][7] = SendEv(WakeResult("samantha"))
        /\ pc[c] = "loop"

\* ---------------------------------------------------------------- C16

\* everything the server holds for connection d
ConnState(d) ==
    <<IF d \in DOMAIN buffers THEN buffers[d] ELSE [absent |-> TRUE],
      pc[d], open[d], hello_fmt[d], cur[d], log[d]>>

\* the handler of c is ended by an exception in this step
TornDown(c) ==
    /\ log'[c] # log[c]
    /\ log'[c][Len(log'[c])] = ExitEv("error")

\* C16: in any interleaving of two connections, every step (a message
\* taken, an engine call returning or raising, a close) is a step of one
\* connection and leaves the other connection's utterance buffer, sent
\* messages and handler position unchanged; an exception ends the handler
\* of its own connection and removes only that connection's buffer.
C16_ConnectionsIsolated ==
    [][ /\ \E c \in Conns : \A d \in Conns \ {c} : ConnState(d)' = ConnState(d)
        /\ \A c \in Conns :
              TornDown(c) =>
                  /\ pc'[c] = "done"
                  /\ DOMAIN buffers' = DOMAIN buffers \ {c}
                  /\ \A d \in Conns \ {c} : ConnState(d)' = ConnState(d) ]_vars

\* ws1 has just been torn down by a message that is not a JSON object while
\* ws2 is between utterance_start and utterance_end, and is still handled
C16_Witness ==
    /\ last.conn = "ws1" /\ last.at = "loop"
    /\ pc["ws1"] = "done"
    /\ log["ws1"] # <<>> /\ log["ws1"][Len(log["ws1"])] = ExitEv("error")
    /\ pc["ws2"] = "loop" /\ open["ws2"]
    /\ "ws2" \in DOMAIN buffers /\ buffers["ws2"] # None
    /\ log["ws2"][Len(log["ws2"])] = SendEv(Status("LISTENING", "Listening"))

\* ---------------------------------------------------------------- C17

\* C17: when the silence run has reached end_silence_frames while fewer
\* than min_speech_frames frames are queued, the queue has been discarded:
\* the segmenter is not speeching, the queue is empty and the silence
\* counter is reset.
C17_BlipDiscarded ==
    (silence_frames >= end_silence_frames /\ Len(speech_frames) < min_speech_frames) =>
        (~speeching /\ speech_frames = <<>> /\ silence_frames = 0)

\* ---------------------------------------------------------------- C18

\* an engine call of c is in flight
InFlight(c) == pc[c] \in {"stt", "llm", "tts"}

\* C18: while a transcription, completion or synthesis call of an open
\* connection is in flight, the server can take and handle the next message
\* the peer sends on that connection.
C18_ReceivesWhileEngineRuns ==
    \A c \in peers :
        (InFlight(c) /\ open[c] /\ quota > 0) =>
            ENABLED (\E msg \in LoopMsgs : Receive(c, msg))

\* ---------------------------------------------------------------- C19

\* the message ends the server's response to an utterance: a wake_result,
\* a tts_end, or a status IDLE that follows neither
Terminating(msgs, i) ==
    \/ msgs[i].msg.type \in {"wake_result", "tts_end"}
    \/ /\ msgs[i] = IdleStatus
       /\ i > 1 => msgs[i - 1].msg.type \notin {"wake_result", "tts_end"}

\* utterances whose terminating response recv_task has received
Answered ==
    Cardinality({ i \in 1..nread : Terminating(Sent(Ws), i) })

\* C19: the client hands an utterance to send_utterance only when every
\* utterance it sent before has received its terminating response.
C19_OneUtteranceInFlight ==
    [][Len(sent') > Len(sent) => Answered = Len(sent)]_vars

\* ---------------------------------------------------------------- C20

IsSend(e) == e.ev = "send"
IsAnyStatus(e) == IsSend(e) /\ e.msg.type = "status"

\* the state of the status sent last before entry i of lg
PrevStatus(lg, i) ==
    LET before == { j \in 1..(i - 1) : IsAnyStatus(lg[j]) }
    IN IF before = {} THEN "none"
       ELSE lg[CHOOSE j \in before : \A k \in before : k <= j].msg.state

\* THINKING is sent only after LISTENING or THINKING
ThinkingInOrder ==
    \A c \in Conns : \A i \in 1..Len(log[c]) :
        IsStatus(log[c][i], "THINKING") =>
            PrevStatus(log[c], i) \in {"LISTENING", "THINKING"}

\* SPEAKING is sent only after THINKING, for an utterance of mode query
\* whose transcript is not empty
SpeakingInOrder ==
    \A c \in Conns : \A i \in 1..Len(log[c]) :
        IsStatus(log[c][i], "SPEAKING") =>
            /\ PrevStatus(log[c], i) = "THINKING"
            /\ \E j \in 1..(i - 1) :
                  /\ IsEnd(log[c][j]) /\ SameUtterance(log[c], j, i)
                  /\ log[c][j].mode = "query"
                  /\ \E k \in (j + 1)..(i - 1) :
                        /\ log[c][k].ev = "return" /\ log[c][k].op = "stt"
                        /\ log[c][k].val # <<>>

\* the handler is through with the utterance_end at entry i of its log, on
\* a connection that is still open or that an exception has ended
Handled(c, i) ==
    /\ IsEnd(log[c][i])
    /\ \/ \E k \in (i + 1)..Len(log[c]) : IsEnd(log[c][k])
       \/ pc[c] \in {"loop", "done"}
    /\ open[c] \/ log[c][Len(log[c])] = ExitEv("error")

\* entry k of lg was written while the utterance_end at entry i was handled:
\* no other utterance_end, no utterance_start and no end of the handler
\* lies between them
Handling(lg, i, k) ==
    /\ k > i /\ k <= Len(lg)
    /\ \A j \in (i + 1)..k : ~IsEnd(lg[j]) /\ lg[j] # Listening /\ lg[j].ev # "exit"

\* the last message sent for the utterance_end at entry i is the status IDLE
EndsInIdle(lg, i) ==
    \E k \in (i + 1)..Len(lg) :
        /\ Handling(lg, i, k)
        /\ lg[k] = IdleStatus
        /\ \A m \in (k + 1)..Len(lg) : Handling(lg, i, m) => ~IsSend(lg[m])

EveryEndIdles ==
    \A c \in Conns : \A i \in 1..Len(log[c]) :
        Handled(c, i) => EndsInIdle(log[c], i)

\* C20: the statuses a connection is sent follow the transition table:
\* THINKING only after LISTENING or THINKING, SPEAKING only after THINKING
\* and only for a query utterance with a non-empty transcript, and the last
\* message of every handled utterance_end is the status IDLE.
C20_StatusTable ==
    ThinkingInOrder /\ SpeakingInOrder /\ EveryEndIdles

\* ---------------------------------------------------------------- C21

\* the handler of c is through with the synthesis announced by message i of
\* ms, on a connection that is still open or that an exception has ended
Synthesized(c, ms, i) ==
    /\ ms[i].msg.type = "tts_start"
    /\ ~(pc[c] = "tts" /\ i = Len(ms))
    /\ open[c] \/ log[c][Len(log[c])] = ExitEv("error")

\* C21: every tts_start the server has sent is followed, with no other
\* message in between, by one binary payload and then a tts_end of the same
\* persona, once the synthesis is over; and a binary payload is sent only
\* right after a tts_start.
C21_TtsBracketed ==
    \A c \in Conns :
        LET ms == Sent(c)
        IN /\ \A i \in 1..Len(ms) :
                 Synthesized(c, ms, i) =>
                     /\ i + 2 <= Len(ms)
                     /\ ms[i + 1].msg = Pcm24k
                     /\ ms[i + 2].msg = TtsEnd(ms[i].msg.persona)
           /\ \A i \in 1..Len(ms) :
                 ms[i].msg.type = "binary" =>
                     i > 1 /\ ms[i - 1].msg.type = "tts_start"

\* ---------------------------------------------------------------- C22

\* this step takes msg from connection c in the async for loop
Takes(c) == quota' = quota - 1 /\ last'.conn = c /\ last'.at = "loop"

\* an utterance_start whose sr and ch int() accepts
GoodStart(msg) ==
    /\ msg.kind = "object" /\ msg.type = "utterance_start"
    /\ msg.sr \in {Absent, "16000", "8000"} /\ msg.ch \in {Absent, "1", "2"}

\* C22: an utterance_start taken while a buffer is open replaces it with an
\* empty buffer, sends LISTENING and neither ends the handler nor closes the
\* connection; a binary payload taken while a buffer is open is appended to
\* it; an utterance_end finalizes the buffer as it stands, which is handed
\* to the transcription unless it is too short. So what an utterance_end
\* finalizes are the payloads taken since the latest utterance_start, in
\* the order of their arrival.
C22_RestartReplacesBuffer ==
    [][ \A c \in Conns :
          Takes(c) =>
              LET msg == last'.msg
                  buf == buffers[c]
              IN /\ (GoodStart(msg) /\ buf # None) =>
                        /\ c \in DOMAIN buffers' /\ buffers'[c] # None
                        /\ buffers'[c].pcm = <<>>
                        /\ pc'[c] = "loop" /\ open'[c]
                        /\ log'[c] = Append(log[c], Listening)
                 /\ (msg.kind = "binary" /\ buf # None) =>
                        buffers'[c] = [buf EXCEPT !.pcm = Append(buf.pcm, msg.len)]
                 /\ (msg.kind = "object" /\ msg.type = "utterance_end") =>
                        /\ buffers'[c] = None
                        /\ Len(log'[c]) > Len(log[c])
                        /\ IsEnd(log'[c][Len(log[c]) + 1])
                        /\ log'[c][Len(log[c]) + 1].buf = buf
                        /\ ~ShortBuffer(buf) =>
                              log'[c][Len(log'[c])] =
                                  CallEv("stt", <<buf.pcm, buf.sample_rate,
                                                  buf.channels, "en">>) ]_vars

\* the client's connection has been sent the handshake status and LISTENING
\* twice, and its one utterance_end has just finalized a single payload,
\* while six messages were taken: the hello, two utterance_start, the
\* utterance_end and two payloads, one of them before the latest
\* utterance_start
C22_Witness ==
    /\ quota = MaxSessionMsgs - 6
    /\ last.conn = Ws /\ last.at = "loop"
    /\ last.msg.kind = "object" /\ last.msg.type = "utterance_end"
    /\ Len(log[Ws]) = 6
    /\ log[Ws][2] = Listening /\ log[Ws][3] = Listening
    /\ IsEnd(log[Ws][4])
    /\ log[Ws][4].buf # None /\ log[Ws][4].buf.pcm = <<3200>>
    /\ IsCall(log[Ws][6], "stt") /\ log[Ws][6].args[1] = <<3200>>

\* ---------------------------------------------------------------- C23

\* the handler of c is running
Running(c) == pc[c] \in {"hello", "loop", "stt", "llm", "tts"}

\* how the handler of c ended
ExitOf(c) == log[c][Len(log[c])].how

\* C23: self.buffers holds an entry for a connection exactly while its
\* handler runs: whichever way the handler ends (handshake rejected, closed
\* connection, exception), its entry is gone.
C23_RegistryHoldsRunningOnly ==
    \A c \in Conns :
        /\ c \in DOMAIN buffers <=> Running(c)
        /\ (log[c] # <<>> /\ log[c][Len(log[c])].ev = "exit") => c \notin DOMAIN buffers

\* ws1 was refused at the handshake, ws2 was ended by an exception after an
\* utterance_start: the registry is empty
C23_Witness ==
    /\ pc["ws1"] = "done" /\ ExitOf("ws1") = "rejected"
    /\ pc["ws2"] = "done" /\ ExitOf("ws2") = "error"
    /\ Len(log["ws2"]) = 3 /\ log["ws2"][2] = Listening
    /\ DOMAIN buffers = {}

\* ---------------------------------------------------------------- C24

\* the message recv_task takes in this step
Taking == Sent(Ws)[nread + 1].msg

\* this step is recv_task taking a wake_result
TakesWakeResult == nread' = nread + 1 /\ Taking.type = "wake_result"

\* the latest query utterance the client has sent
LastQuery(utts) ==
    CHOOSE k \in 1..Len(utts) :
        utts[k].mode = "query" /\ \A j \in (k + 1)..Len(utts) : utts[j].mode # "query"

\* after this step, recv_task has received the terminating response of the
\* latest query utterance the client has sent
QueryAnswered ==
    /\ \E k \in 1..Len(sent') : sent'[k].mode = "query"
    /\ Answered' >= LastQuery(sent')

\* C24: the dialog state changes only when recv_task takes a wake_result,
\* which sets AWAIT_QUERY with the persona of the message or IDLE when the
\* persona is null, or when it returns to IDLE with no persona, and then
\* the reply to the query has been received.
C24_StateChangesOnWakeOrReply ==
    [][ state' # state =>
          \/ /\ TakesWakeResult
             /\ state' = IF Taking.persona # Null
                         THEN [mode |-> AWAIT_QUERY, current_persona |-> Taking.persona]
                         ELSE [mode |-> IDLE, current_persona |-> Null]
          \/ /\ ~TakesWakeResult
             /\ state' = [mode |-> IDLE, current_persona |-> Null]
             /\ QueryAnswered ]_vars

\* ---------------------------------------------------------------- C25

\* the value of a field of an utterance_end message, or the recorded one
\* when the message has no such field
Carried(field, recorded) == IF field # Absent THEN field ELSE recorded

\* this step is the transcription of c returning a text that is not empty
\* while the connection is open
Transcribed(c) ==
    /\ pc[c] = "stt" /\ open[c]
    /\ Len(log'[c]) > Len(log[c])
    /\ log'[c][Len(log[c]) + 1].ev = "return"
    /\ log'[c][Len(log[c]) + 1].val # <<>>

\* C25: an utterance_end that finalizes a buffer long enough hands the
\* transcription the sample rate and channel count recorded at
\* utterance_start, and takes mode and persona from the utterance_end
\* message when it carries them, from the buffer otherwise; the transcript
\* is then routed by that mode and persona: mode wake to a wake_result,
\* any other mode to a completion under the prompt of that persona.
C25_EndMessageRoutes ==
    [][ \A c \in Conns :
          /\ (/\ Takes(c)
              /\ last'.msg.kind = "object" /\ last'.msg.type = "utterance_end"
              /\ ~ShortBuffer(buffers[c])) =>
                 LET msg == last'.msg
                     buf == buffers[c]
                     end == log'[c][Len(log[c]) + 1]
                 IN /\ IsEnd(end)
                    /\ end.mode = Carried(msg.mode, buf.mode)
                    /\ end.persona = Carried(msg.persona, buf.persona)
                    /\ log'[c][Len(log'[c])] =
                          CallEv("stt", <<buf.pcm, buf.sample_rate, buf.channels, "en">>)
          /\ Transcribed(c) =>
                 LET end == log[c][EndOf(log[c], Len(log[c]))]
                     final == log'[c][Len(log'[c])]
                 IN IF end.mode = "wake"
                    THEN /\ \E p \in KnownPersonas \cup {Null} :
                              log'[c][Len(log[c]) + 2] = SendEv(WakeResult(p))
                         /\ final = IdleStatus
                    ELSE final = CallEv("llm", <<_persona_system_prompt(end.persona)>>) ]_vars

\* an utterance opened with mode query, persona samantha, 8000 Hz and two
\* channels ends with an utterance_end that carries no field: it was
\* transcribed at 8000 Hz and two channels and went to the completion under
\* the prompt of samantha
C25_Witness ==
    \E c \in Conns :
        /\ pc[c] = "llm"
        /\ last.conn = c /\ last.msg.kind = "object" /\ last.msg.type = "utterance_end"
        /\ last.msg.mode = Absent /\ last.msg.persona = Absent
        /\ \E i \in 1..Len(log[c]) :
              /\ IsCall(log[c][i], "stt")
              /\ log[c][i].args[2] = 8000 /\ log[c][i].args[3] = 2
        /\ hello_fmt[c] = [sr |-> 16000, ch |-> 1]
        /\ log[c][Len(log[c])] = CallEv("llm", <<persona_prompts["samantha"]>>)

\* ---------------------------------------------------------------- C26

\* C26: in every state of the client, whatever the interleaving of
\* recv_task and vad_task, mode is AWAIT_QUERY exactly when current_persona
\* is not null; every utterance sent with mode query carries a persona and
\* every utterance sent with mode wake carries null.
C26_ModeIffPersona ==
    /\ state.mode = AWAIT_QUERY <=> state.current_persona # Null
    /\ state.mode \in {IDLE, AWAIT_QUERY}
    /\ \A k \in 1..Len(sent) :
          /\ sent[k].mode = "query" => sent[k].persona # Null
          /\ sent[k].mode = "wake" => sent[k].persona = Null

\* a wake utterance was sent with no persona, recv_task took the
\* wake_result naming samantha, a query utterance was sent with that
\* persona, and vad_task has returned the state to IDLE
C26_Witness ==
    /\ Len(sent) = 2
    /\ sent[1].mode = "wake" /\ sent[1].persona = Null
    /\ sent[2].mode = "query" /\ sent[2].persona = "samantha"
    /\ \E i \in 1..nread : Sent(Ws)[i].msg = WakeResult("samantha")
    /\ sending = Null
    /\ state = [mode |-> IDLE, current_persona |-> Null]

====
